---- MODULE Spec2Model ----
(***************************************************************************)
(* The Sudoku solver of src/app.py: solve_sudoku_optimized with its two    *)
(* closures candidates() and backtrack().  The recursion of backtrack() is *)
(* unfolded into an explicit call stack, one frame per active invocation,  *)
(* and one action per statement group, so that the grid and the worklist   *)
(* can be observed between any two statements of the code.                 *)
(***************************************************************************)
EXTENDS Integers, Sequences, FiniteSets, TLC

N == 9              \* range(9): the grid is N x N
BlockSize == 3      \* 3*(row//3): blocks are BlockSize x BlockSize

MaxDigits == 5      \* inputs blank the cells of the digits 1..d, d <= MaxDigits
MaxCalls == 2       \* number of successive solve calls that are observed

VARIABLES
    board,          \* the numpy array handed to solve_sudoku_optimized
    empty_cells,    \* the closure's worklist (a Python list of (row, col))
    stack,          \* active invocations of backtrack(), outermost first
    pc,             \* where control is: start, enter, loop, return, done
    ret,            \* the value being returned while pc = "return"/"done"
    board0,         \* the grid as it was when the current call was made
    calls,          \* how many solve calls have been started
    mode,           \* what the current call was made on: first, same, result
    prev            \* outcome of the previous call

vars == <<board, empty_cells, stack, pc, ret, board0, calls, mode, prev>>

Idx == 0 .. (N - 1)
Digits == 1 .. N

NoCell == <<0 - 1, 0 - 1>>

(***************************************************************************)
(* candidates(row, col), lines 20-26.                                      *)
(***************************************************************************)
\* board[row, col]: the grid is kept row by row, cell (row, col) at N*row + col + 1.
At(b, row, col) == b[N * row + col + 1]

PosOf(cell) == N * cell[1] + cell[2] + 1

RowVals(b, row) == { At(b, row, j) : j \in Idx }

\* board[col, :] in place of board[:, col].
ColValsTransposed(b, col) == { At(b, col, j) : j \in Idx }

ColVals(b, col) == { At(b, i, col) : i \in Idx }

BlockVals(b, row, col) ==
    LET start_row == BlockSize * (row \div BlockSize)
        start_col == BlockSize * (col \div BlockSize)
    IN  { At(b, i, j) : i \in start_row .. (start_row + BlockSize - 1),
                         j \in start_col .. (start_col + BlockSize - 1) }

\* line 25 left out: the digits of the block are not removed.
CandidateSetNoBlock(b, row, col) == (Digits \ RowVals(b, row)) \ ColVals(b, col)

CandidateSet(b, row, col) ==
    ((Digits \ RowVals(b, row)) \ ColVals(b, col)) \ BlockVals(b, row, col)

\* an iteration order that is not the same from one call to the next.
ListOfSetByCall(S) ==
    IF calls = 1
    THEN SelectSeq([d \in 1 .. N |-> d], LAMBDA d : d \in S)
    ELSE SelectSeq([d \in 1 .. N |-> N + 1 - d], LAMBDA d : d \in S)

\* list(nums): a CPython set of small ints iterates in ascending order
\* (an int hashes to itself and the table never holds a collision here).
ListOfSet(S) == SelectSeq([d \in 1 .. N |-> d], LAMBDA d : d \in S)

candidates(b, row, col) == ListOfSet(CandidateSet(b, row, col))

(***************************************************************************)
(* The worklist: line 18 and the sort of line 33.                          *)
(***************************************************************************)
RowMajor == [k \in 1 .. (N * N) |-> <<(k - 1) \div N, (k - 1) % N>>]

\* the comprehension without its "if board[i, j] == 0".
InitialWorklistUnfiltered(b) == SelectSeq(RowMajor, LAMBDA p : At(b, p[1], p[2]) >= 0)

InitialWorklist(b) == SelectSeq(RowMajor, LAMBDA p : At(b, p[1], p[2]) = 0)

SortKey(b, pos) == Len(candidates(b, pos[1], pos[2]))

\* list.sort(key=...) is stable: equal keys keep their relative order.
RECURSIVE SortFrom(_, _, _)
SortFrom(seq, key, k) ==
    IF k > N THEN <<>>
    ELSE SelectSeq(seq, LAMBDA p : key[p] = k) \o SortFrom(seq, key, k + 1)

\* the sort of line 33 left out: the worklist is popped in the order it has.
Unsorted(b, seq) == seq

SortedWorklist(b, seq) ==
    LET keys == [p \in { seq[i] : i \in 1 .. Len(seq) } |-> SortKey(b, p)]
    IN  CHOOSE s \in { SortFrom(seq, key, 0) : key \in {keys} } : TRUE

(***************************************************************************)
(* Input grids.  Base is a solved grid; an input blanks the cells of the   *)
(* digits 1..d and may overwrite one cell with any value 0..9, which gives *)
(* solved grids, puzzles with one or several solutions, puzzles with none, *)
(* and grids whose given digits conflict.                                  *)
(***************************************************************************)
Base ==
    [k \in 1 .. (N * N) |->
        LET r == (k - 1) \div N
            c == (k - 1) % N
        IN  ((BlockSize * (r % BlockSize) + (r \div BlockSize) + c) % N) + 1]

BlankDigits(d) == [k \in 1 .. (N * N) |-> IF Base[k] <= d THEN 0 ELSE Base[k]]

PlantCells == {<<0, 0>>, <<1, 6>>, <<4, 4>>}

Inputs ==
    { BlankDigits(d) : d \in 0 .. MaxDigits }
    \cup { [BlankDigits(d) EXCEPT ![PosOf(p)] = v] :
              d \in 0 .. MaxDigits, p \in PlantCells, v \in 0 .. N }

NoOutcome == [ret |-> FALSE, board |-> Base]

Init ==
    /\ board \in Inputs
    /\ board0 = board
    /\ empty_cells = <<>>
    /\ stack = <<>>
    /\ pc = "start"
    /\ ret = FALSE
    /\ calls = 1
    /\ mode = "first"
    /\ prev = NoOutcome

(***************************************************************************)
(* Frames of backtrack(): the locals row, col (cell), the digits the loop   *)
(* of line 36 has still to try (cands) and the digit it is at (num).  b0   *)
(* and n0 record the grid and the worklist length the invocation was       *)
(* entered with; the code keeps neither, the properties read them.         *)
(***************************************************************************)
Top == stack[Len(stack)]

Pop(s) == SubSeq(s, 1, Len(s) - 1)

Frame(cell, cands, b, n) ==
    [cell |-> cell, cands |-> cands, num |-> 0, b0 |-> b, n0 |-> n]

\* lines 16-18, 46: build the worklist and make the outermost backtrack() call.
Start ==
    /\ pc = "start"
    /\ empty_cells' = InitialWorklist(board)
    /\ pc' = "enter"
    /\ UNCHANGED <<board, stack, ret, board0, calls, mode, prev>>

\* lines 29-30: entry with an empty worklist.
BaseCase ==
    /\ pc = "enter"
    /\ empty_cells = <<>>
    /\ stack' = Append(stack, Frame(NoCell, <<>>, board, Len(empty_cells)))
    /\ ret' = TRUE
    /\ pc' = "return"
    /\ UNCHANGED <<board, empty_cells, board0, calls, mode, prev>>

\* empty_cells[0] in place of empty_cells.pop(0): the entry is read, not removed.
SelectNoPop ==
    /\ pc = "enter"
    /\ empty_cells # <<>>
    /\ \E sorted \in {SortedWorklist(board, empty_cells)} :
         \E cell \in {Head(sorted)} :
           /\ empty_cells' = sorted
           /\ stack' = Append(stack,
                  Frame(cell, candidates(board, cell[1], cell[2]),
                        board, Len(empty_cells)))
    /\ pc' = "loop"
    /\ UNCHANGED <<board, ret, board0, calls, mode, prev>>

\* lines 33-36: sort, pop the first entry, evaluate candidates(row, col).
Select ==
    /\ pc = "enter"
    /\ empty_cells # <<>>
    /\ \E sorted \in {SortedWorklist(board, empty_cells)} :
         \E cell \in {Head(sorted)} :
           /\ empty_cells' = Tail(sorted)
           /\ stack' = Append(stack,
                  Frame(cell, candidates(board, cell[1], cell[2]),
                        board, Len(empty_cells)))
    /\ pc' = "loop"
    /\ UNCHANGED <<board, ret, board0, calls, mode, prev>>

\* board[col, row] = num in place of board[row, col] = num.
PlaceTransposed ==
    /\ pc = "loop"
    /\ Top.cands # <<>>
    /\ board' = [board EXCEPT ![PosOf(<<Top.cell[2], Top.cell[1]>>)] = Head(Top.cands)]
    /\ stack' = [stack EXCEPT ![Len(stack)] =
                    [@ EXCEPT !.num = Head(Top.cands), !.cands = Tail(Top.cands)]]
    /\ pc' = "enter"
    /\ UNCHANGED <<empty_cells, ret, board0, calls, mode, prev>>

\* lines 36-38: next num of the loop, write it, call backtrack().
Place ==
    /\ pc = "loop"
    /\ Top.cands # <<>>
    /\ board' = [board EXCEPT ![PosOf(Top.cell)] = Head(Top.cands)]
    /\ stack' = [stack EXCEPT ![Len(stack)] =
                    [@ EXCEPT !.num = Head(Top.cands), !.cands = Tail(Top.cands)]]
    /\ pc' = "enter"
    /\ UNCHANGED <<empty_cells, ret, board0, calls, mode, prev>>

\* line 43 left out: the cell is not put back.
PutBackNoInsert ==
    /\ pc = "loop"
    /\ Top.cands = <<>>
    /\ ret' = FALSE
    /\ pc' = "return"
    /\ UNCHANGED <<board, empty_cells, stack, board0, calls, mode, prev>>

\* lines 43-44: loop exhausted, put the cell back and return False.
PutBack ==
    /\ pc = "loop"
    /\ Top.cands = <<>>
    /\ empty_cells' = <<Top.cell>> \o empty_cells
    /\ ret' = FALSE
    /\ pc' = "return"
    /\ UNCHANGED <<board, stack, board0, calls, mode, prev>>

\* lines 38-39: the recursive call returned True, return True.
PropagateTrue ==
    /\ pc = "return"
    /\ Len(stack) >= 2
    /\ ret = TRUE
    /\ stack' = Pop(stack)
    /\ UNCHANGED <<board, empty_cells, pc, ret, board0, calls, mode, prev>>

\* line 40 left out: the cell keeps the digit of the failed branch.
UndoNoReset ==
    /\ pc = "return"
    /\ Len(stack) >= 2
    /\ ret = FALSE
    /\ stack' = Pop(stack)
    /\ pc' = "loop"
    /\ UNCHANGED <<board, empty_cells, ret, board0, calls, mode, prev>>

\* the loop is left after the first failed digit: the remaining ones are not tried.
UndoGiveUp ==
    /\ pc = "return"
    /\ Len(stack) >= 2
    /\ ret = FALSE
    /\ board' = [board EXCEPT ![PosOf(stack[Len(stack) - 1].cell)] = 0]
    /\ stack' = [Pop(stack) EXCEPT ![Len(stack) - 1] = [@ EXCEPT !.cands = <<>>]]
    /\ pc' = "loop"
    /\ UNCHANGED <<empty_cells, ret, board0, calls, mode, prev>>

\* lines 38, 40: the recursive call returned False, reset the cell.
Undo ==
    /\ pc = "return"
    /\ Len(stack) >= 2
    /\ ret = FALSE
    /\ board' = [board EXCEPT ![PosOf(stack[Len(stack) - 1].cell)] = 0]
    /\ stack' = Pop(stack)
    /\ pc' = "loop"
    /\ UNCHANGED <<empty_cells, ret, board0, calls, mode, prev>>

\* line 46: the outermost backtrack() returns, and so does solve.
Finish ==
    /\ pc = "return"
    /\ Len(stack) = 1
    /\ stack' = <<>>
    /\ pc' = "done"
    /\ UNCHANGED <<board, empty_cells, ret, board0, calls, mode, prev>>

\* A further call of solve on a grid equal to the one just given.
CallSameInput ==
    /\ pc = "done"
    /\ calls < MaxCalls
    /\ prev' = [ret |-> ret, board |-> board]
    /\ board' = board0
    /\ mode' = "same"
    /\ calls' = calls + 1
    /\ empty_cells' = <<>>
    /\ pc' = "start"
    /\ UNCHANGED <<stack, ret, board0>>

\* lines 156-158: a further call of solve on the grid the last call left.
CallOnResult ==
    /\ pc = "done"
    /\ calls < MaxCalls
    /\ prev' = [ret |-> ret, board |-> board]
    /\ board0' = board
    /\ mode' = "result"
    /\ calls' = calls + 1
    /\ empty_cells' = <<>>
    /\ pc' = "start"
    /\ UNCHANGED <<board, stack, ret>>

backtrack == BaseCase \/ Select \/ Place \/ PutBack \/ PropagateTrue \/ Undo

Next == Start \/ backtrack \/ Finish \/ CallSameInput \/ CallOnResult

Spec == Init /\ [][Next]_vars

LiveSpec == Spec /\ WF_vars(Start \/ backtrack \/ Finish)

(***************************************************************************)
(* Vocabulary of the properties.                                            *)
(***************************************************************************)
Positions == 1 .. (N * N)

RowOf(k) == (k - 1) \div N

ColOf(k) == (k - 1) % N

BlockOf(k) == <<RowOf(k) \div BlockSize, ColOf(k) \div BlockSize>>

Units ==
    { { k \in Positions : RowOf(k) = r } : r \in Idx }
    \cup { { k \in Positions : ColOf(k) = c } : c \in Idx }
    \cup { { k \in Positions : BlockOf(k) = bl } :
              bl \in (0 .. (BlockSize - 1)) \X (0 .. (BlockSize - 1)) }

PeersOf ==
    [k \in Positions |->
        { j \in Positions : j # k /\ (RowOf(j) = RowOf(k) \/ ColOf(j) = ColOf(k)
                                        \/ BlockOf(j) = BlockOf(k)) }]

\* No row, column or block holds the same non-zero digit twice.
NoDuplicates(b) ==
    \A u \in Units :
        Cardinality({ k \in u : b[k] # 0 }) = Cardinality({ b[k] : k \in u } \ {0})

\* Every row, column and block is a permutation of 1..9.
Solved(b) == \A u \in Units : { b[k] : k \in u } = Digits

ZeroCells(b) == { RowMajor[k] : k \in { j \in Positions : b[j] = 0 } }

Range(seq) == { seq[i] : i \in 1 .. Len(seq) }

NoRepeat(seq) == Cardinality(Range(seq)) = Len(seq)

Running == pc \in {"enter", "loop", "return"}

(***************************************************************************)
(* C1.  Whenever an invocation of backtrack() returns False the grid is    *)
(* element-wise the grid that invocation was entered with, and when solve  *)
(* itself returns False the grid is the grid it was called with.           *)
(***************************************************************************)
Restoration ==
    /\ (pc = "return" /\ ret = FALSE) => board = Top.b0
    /\ (pc = "done" /\ ret = FALSE) => board = board0

\* solve is returning False after its outermost invocation tried a digit.
RestorationWitness ==
    /\ pc = "return" /\ ret = FALSE
    /\ Len(stack) = 1 /\ Top.num # 0
    /\ board = board0

(***************************************************************************)
(* C2 as stated: whenever solve returns True, every row, column and block  *)
(* of the grid is a permutation of 1..9, whatever the input grid.          *)
(***************************************************************************)
ValidityAnyInput == (pc = "done" /\ ret = TRUE) => Solved(board)

(***************************************************************************)
(* C2 amended: whenever solve returns True on an input grid whose given    *)
(* digits repeat in no row, column or block, every row, column and block   *)
(* of the result is a permutation of 1..9.                                 *)
(***************************************************************************)
Validity == (pc = "done" /\ ret = TRUE /\ NoDuplicates(board0)) => Solved(board)

\* a successful solve that had cells to fill, on an input without duplicates.
ValidityWitness ==
    /\ pc = "done" /\ ret = TRUE /\ mode = "first"
    /\ board # board0
    /\ NoDuplicates(board0)
    /\ Solved(board)

(***************************************************************************)
(* C4.  A cell that was non-zero when solve was called holds that value at *)
(* every moment of the call and in the result: solve writes only to cells  *)
(* that were 0 at call time.                                               *)
(***************************************************************************)
GivensKept == \A k \in Positions : board0[k] # 0 => board[k] = board0[k]

\* a successful solve that filled cells of an input holding given digits.
GivensKeptWitness ==
    /\ pc = "done" /\ ret = TRUE
    /\ board # board0
    /\ \E k \in Positions : board0[k] # 0

(***************************************************************************)
(* C6.  Called on a grid with no empty cell and no conflict, solve makes   *)
(* one invocation of backtrack(), writes nothing and returns True; so a    *)
(* call on the result of a successful solve returns True and leaves that   *)
(* result unchanged.                                                       *)
(***************************************************************************)
SolvedInputUntouched ==
    /\ Solved(board0) =>
          /\ board = board0
          /\ empty_cells = <<>>
          /\ Len(stack) <= 1
          /\ pc = "done" => ret = TRUE
    /\ (mode = "result" /\ prev.ret = TRUE) =>
          /\ board = prev.board
          /\ pc = "done" => ret = TRUE

\* the call made on the grid a successful solve left has returned True.
SolvedInputWitness ==
    /\ pc = "done" /\ ret = TRUE
    /\ mode = "result" /\ prev.ret = TRUE
    /\ Solved(board0)
    /\ board = board0

(***************************************************************************)
(* C9.  Starting from an input whose given digits repeat in no row, column *)
(* or block, no row, column or block of the grid ever holds the same       *)
(* non-zero digit twice: a placed digit was absent from the cell's row,    *)
(* column and block.                                                       *)
(***************************************************************************)
NoConflictEver == NoDuplicates(board0) => NoDuplicates(board)

\* the search inspects a grid into which it has placed at least two digits.
NoConflictWitness ==
    /\ pc = "enter" /\ Len(stack) >= 2
    /\ NoDuplicates(board0)
    /\ NoDuplicates(board)

(***************************************************************************)
(* C5.  A call of solve on a grid equal to the grid of the previous call   *)
(* returns the same boolean and leaves an equal grid; in every invocation  *)
(* the digits are tried in ascending order.                                *)
(***************************************************************************)
AscendingFrom(f) ==
    /\ \A j \in 1 .. (Len(f.cands) - 1) : f.cands[j] < f.cands[j + 1]
    /\ f.cands # <<>> => f.num < Head(f.cands)

DepthBounded == Len(stack) - 1 <= Cardinality(ZeroCells(board0))

ShrinksByOne == \A i \in 2 .. Len(stack) : stack[i].n0 = stack[i - 1].n0 - 1

FalseRestoresLength == (pc = "return" /\ ret = FALSE) => Len(empty_cells) = Top.n0

TerminatesBounded ==
    /\ [](DepthBounded /\ ShrinksByOne /\ FalseRestoresLength)
    /\ (pc = "start") ~> (pc = "done")

\* an invocation three levels down returns False with the worklist restored.
TerminatesWitness ==
    /\ pc = "return" /\ ret = FALSE
    /\ Len(stack) >= 4
    /\ Len(empty_cells) = Top.n0

(***************************************************************************)
(* C8 as stated: at every point of a solve call the worklist holds exactly *)
(* the coordinates whose grid value is 0, each once.                       *)
(***************************************************************************)
WorklistExactAlways ==
    Running => (Range(empty_cells) = ZeroCells(board) /\ NoRepeat(empty_cells))

(***************************************************************************)
(* C8 amended: at every entry to backtrack() and at every return from it   *)
(* the worklist holds exactly the coordinates whose grid value is 0, each  *)
(* once; between the pop and the assignment, and between the reset to 0    *)
(* and the reinsertion, it holds exactly the other zero coordinates: the   *)
(* selected cell is 0 in the grid and absent from the worklist.            *)
(***************************************************************************)
WorklistExact ==
    /\ pc \in {"enter", "return"} =>
          (Range(empty_cells) = ZeroCells(board) /\ NoRepeat(empty_cells))
    /\ pc = "loop" =>
          /\ At(board, Top.cell[1], Top.cell[2]) = 0
          /\ Top.cell \notin Range(empty_cells)
          /\ Range(empty_cells) \cup {Top.cell} = ZeroCells(board)
          /\ NoRepeat(empty_cells)

\* the selected cell has been reset to 0 and is about to be reinserted.
WorklistExactWitness ==
    /\ pc = "loop" /\ Top.num # 0 /\ Top.cands = <<>>
    /\ Top.cell \notin Range(empty_cells)
    /\ Range(empty_cells) \cup {Top.cell} = ZeroCells(board)

(***************************************************************************)
(* C10.  The cell removed from the worklist has, on the current grid, no   *)
(* more candidates than any cell left in the worklist; among the cells     *)
(* with the smallest count it is the earliest in the worklist as it was    *)
(* before the sort; with zero candidates the invocation returns False      *)
(* without writing the grid.                                               *)
(***************************************************************************)
FewestCandidates ==
    pc = "loop" =>
        \E n \in {SortKey(board, Top.cell)} :
            \A i \in 1 .. Len(empty_cells) : n <= SortKey(board, empty_cells[i])

EarliestOfFewest ==
    (pc = "enter" /\ pc' = "loop") =>
        \E cell \in {stack'[Len(stack')].cell} :
          \E n \in {SortKey(board, cell)} :
            \E i \in 1 .. Len(empty_cells) :
                /\ empty_cells[i] = cell
                /\ \A j \in 1 .. (i - 1) : SortKey(board, empty_cells[j]) > n
                /\ \A j \in (i + 1) .. Len(empty_cells) : SortKey(board, empty_cells[j]) >= n

DeadEndReturnsFalse ==
    (pc = "loop" /\ CandidateSet(board, Top.cell[1], Top.cell[2]) = {}) =>
        (pc' = "return" /\ ret' = FALSE /\ board' = board)

MinimumRemainingValues ==
    /\ []FewestCandidates
    /\ [][EarliestOfFewest /\ DeadEndReturnsFalse]_vars

\* a cell with zero candidates was selected while other cells wait in the worklist.
MinimumRemainingValuesWitness ==
    /\ pc = "loop" /\ Top.num = 0 /\ Top.cands = <<>>
    /\ Len(empty_cells) >= 2
    /\ \E i \in 1 .. Len(empty_cells) : SortKey(board, empty_cells[i]) >= 2

(***************************************************************************)
(* Whether a grid has a valid completion.  A grid with an empty cell has   *)
(* one iff some digit held by no peer of that cell can be written there    *)
(* leaving a grid that has one; this is so for any empty cell, so the      *)
(* choice of the cell changes the cost of the evaluation and not its       *)
(* value.  Given digits are kept by a completion, so a grid whose givens   *)
(* repeat in a row, column or block has none.                              *)
(***************************************************************************)
Allowed(b, k) == Digits \ { b[j] : j \in PeersOf[k] }

RECURSIVE Completable(_)
Completable(b) ==
    \E holes \in {{ k \in Positions : b[k] = 0 }} :
        IF holes = {} THEN Solved(b)
        ELSE \E cnt \in {[k \in holes |-> Cardinality(Allowed(b, k))]} :
               \E k \in {CHOOSE k \in holes : \A j \in holes : cnt[k] <= cnt[j]} :
                 \E v \in Allowed(b, k) : Completable([b EXCEPT ![k] = v])

HasCompletion(b) == NoDuplicates(b) /\ Completable(b)

(***************************************************************************)
(* C3.  solve returns False only on an input grid that has no valid        *)
(* completion: on every input that has one it returns True.                *)
(***************************************************************************)
Completeness == (pc = "done" /\ ret = FALSE) => ~HasCompletion(board0)

\* True is being returned for an input that has a completion, after some
\* invocation saw its smallest candidate fail and went on to a larger one.
CompletenessWitness ==
    /\ pc = "return" /\ ret = TRUE
    /\ \E i \in 1 .. (Len(stack) - 1) :
          \E f \in {stack[i]} :
              Head(candidates(f.b0, f.cell[1], f.cell[2])) < f.num
    /\ HasCompletion(board0)

\* False is returned, after a search, for an input without repeated givens.
UnsolvableWitness ==
    /\ pc = "done" /\ ret = FALSE
    /\ NoDuplicates(board0)
    /\ ~HasCompletion(board0)

====
